---- MODULE Spec2Model ----
(***************************************************************************)
(* Model of the RedfinPlus scraper pipeline (src/src/scraper):             *)
(*   config.py          WatchQuery.to_params                               *)
(*   csv_downloader.py  RedfCSVDownloader.download / normalize_columns     *)
(*   listing_scraper.py ListingScraper.scrape_listing / scrape_listings    *)
(*   pipeline.py        RedfinPipeline.run_query, price_filter,            *)
(*                      composite_filter                                   *)
(* Text is modelled by TLA+ strings, so that upper(), lower(), strip()     *)
(* and startswith() are computed character by character.                   *)
(***************************************************************************)
EXTENDS Integers, Sequences, FiniteSets, TLC

(* ------------------------------ bounds --------------------------------- *)

\* largest number of rows of a fetched table
MaxRows == 2

\* largest number of urls of a direct call of scrape_listings
MaxUrls == 2

(* --------------------------- Python values ----------------------------- *)

\* Optional[T]: None is the empty sequence, a value v is <<v>>
None == <<>>

Some(v) == <<v>>

\* a table cell: text, a number, or the absent value (NaN)
Str(s) == [k |-> "str", n |-> 0, s |-> s]

Num(n) == [k |-> "num", n |-> n, s |-> ""]

NaN == [k |-> "nan", n |-> 0, s |-> ""]

(* ------------------------------ str ------------------------------------ *)

LowerLetters == "abcdefghijklmnopqrstuvwxyz"

UpperLetters == "ABCDEFGHIJKLMNOPQRSTUVWXYZ"

Digits == "0123456789"

Char(s, i) == SubSeq(s, i, i)

\* position of the one-character string c in s, 0 when it does not occur
IndexOf(c, s) ==
  IF \E i \in 1..Len(s) : Char(s, i) = c
  THEN CHOOSE i \in 1..Len(s) : Char(s, i) = c
  ELSE 0

UpperChar(c) ==
  CASE c = "a" -> "A"
    [] c = "b" -> "B"
    [] c = "c" -> "C"
    [] c = "d" -> "D"
    [] c = "e" -> "E"
    [] c = "f" -> "F"
    [] c = "g" -> "G"
    [] c = "h" -> "H"
    [] c = "i" -> "I"
    [] c = "j" -> "J"
    [] c = "k" -> "K"
    [] c = "l" -> "L"
    [] c = "m" -> "M"
    [] c = "n" -> "N"
    [] c = "o" -> "O"
    [] c = "p" -> "P"
    [] c = "q" -> "Q"
    [] c = "r" -> "R"
    [] c = "s" -> "S"
    [] c = "t" -> "T"
    [] c = "u" -> "U"
    [] c = "v" -> "V"
    [] c = "w" -> "W"
    [] c = "x" -> "X"
    [] c = "y" -> "Y"
    [] c = "z" -> "Z"
    [] OTHER -> c

LowerChar(c) ==
  CASE c = "A" -> "a"
    [] c = "B" -> "b"
    [] c = "C" -> "c"
    [] c = "D" -> "d"
    [] c = "E" -> "e"
    [] c = "F" -> "f"
    [] c = "G" -> "g"
    [] c = "H" -> "h"
    [] c = "I" -> "i"
    [] c = "J" -> "j"
    [] c = "K" -> "k"
    [] c = "L" -> "l"
    [] c = "M" -> "m"
    [] c = "N" -> "n"
    [] c = "O" -> "o"
    [] c = "P" -> "p"
    [] c = "Q" -> "q"
    [] c = "R" -> "r"
    [] c = "S" -> "s"
    [] c = "T" -> "t"
    [] c = "U" -> "u"
    [] c = "V" -> "v"
    [] c = "W" -> "w"
    [] c = "X" -> "x"
    [] c = "Y" -> "y"
    [] c = "Z" -> "z"
    [] OTHER -> c

RECURSIVE upper(_)
\* str.upper()
upper(s) ==
  IF Len(s) = 0 THEN ""
  ELSE UpperChar(Char(s, 1)) \o upper(SubSeq(s, 2, Len(s)))

RECURSIVE lower(_)
\* str.lower()
lower(s) ==
  IF Len(s) = 0 THEN ""
  ELSE LowerChar(Char(s, 1)) \o lower(SubSeq(s, 2, Len(s)))

IsSpace(c) == c = " "

RECURSIVE lstrip(_)
lstrip(s) ==
  IF Len(s) > 0 /\ IsSpace(Char(s, 1)) THEN lstrip(SubSeq(s, 2, Len(s))) ELSE s

RECURSIVE rstrip(_)
rstrip(s) ==
  IF Len(s) > 0 /\ IsSpace(Char(s, Len(s)))
  THEN rstrip(SubSeq(s, 1, Len(s) - 1))
  ELSE s

\* str.strip()
strip(s) == rstrip(lstrip(s))

\* str.startswith(p)
startswith(s, p) == Len(s) >= Len(p) /\ SubSeq(s, 1, Len(p)) = p

\* str.endswith(p)
endswith(s, p) ==
  Len(s) >= Len(p) /\ SubSeq(s, Len(s) - Len(p) + 1, Len(s)) = p

\* the text s read as a decimal number (s is a non-empty digit string)
RECURSIVE DigitsValue(_)
DigitsValue(s) ==
  IF Len(s) = 0 THEN 0
  ELSE 10 * DigitsValue(SubSeq(s, 1, Len(s) - 1))
       + (IndexOf(Char(s, Len(s)), Digits) - 1)

IsDigits(s) ==
  Len(s) > 0 /\ \A i \in 1..Len(s) : IndexOf(Char(s, i), Digits) > 0

(* ---------------------------- DataFrame -------------------------------- *)

\* a DataFrame: the column labels and the rows, each row a tuple of cells
\* aligned with the column labels
DataFrame(columns, rows) == [columns |-> columns, rows |-> rows]

\* pd.DataFrame()
EmptyFrame == DataFrame(<<>>, <<>>)

\* DataFrame.empty
IsEmpty(df) == Len(df.columns) = 0 \/ Len(df.rows) = 0

\* name in df.columns
InColumns(df, name) == \E i \in 1..Len(df.columns) : df.columns[i] = name

\* the number of columns labelled name
CountColumns(df, name) ==
  Cardinality({i \in 1..Len(df.columns) : df.columns[i] = name})

\* position of the column labelled name
ColumnIndex(df, name) ==
  CHOOSE i \in 1..Len(df.columns) :
    /\ df.columns[i] = name
    /\ \A j \in 1..Len(df.columns) : df.columns[j] = name => i <= j

\* df[name] as the sequence of the cells of that column
Column(df, name) ==
  [r \in 1..Len(df.rows) |-> df.rows[r][ColumnIndex(df, name)]]

RECURSIVE SelectRows(_, _)
\* df[mask]: the rows whose mask entry is TRUE, in order
SelectRows(rows, mask) ==
  IF Len(rows) = 0 THEN <<>>
  ELSE (IF mask[1] THEN <<rows[1]>> ELSE <<>>)
       \o SelectRows(Tail(rows), Tail(mask))

(* ------------------- csv_downloader.normalize_columns ------------------ *)

UrlHeaderHttps ==
  "URL (SEE https://www.redfin.com/buy-a-home/comparative-market-analysis FOR INFO ON PRICING)"

UrlHeaderHttp ==
  "URL (SEE http://www.redfin.com/buy-a-home/comparative-market-analysis FOR INFO ON PRICING)"

col_map ==
  [k \in {"SALE TYPE", "SOLD DATE", "PROPERTY TYPE", "ADDRESS", "CITY",
          "STATE OR PROVINCE", "STATE", "ZIP OR POSTAL CODE", "ZIP", "PRICE",
          "BEDS", "BATHS", "LOCATION", "SQUARE FEET", "LOT SIZE",
          "YEAR BUILT", "DAYS ON MARKET", "$/SQUARE FEET", "HOA/MONTH",
          "STATUS", "NEXT OPEN HOUSE START TIME", "NEXT OPEN HOUSE END TIME",
          UrlHeaderHttps, UrlHeaderHttp, "SOURCE", "MLS#", "FAVORITE",
          "INTERESTED", "LATITUDE", "LONGITUDE"} |->
    CASE k = "SALE TYPE" -> "sale_type"
      [] k = "SOLD DATE" -> "sold_date"
      [] k = "PROPERTY TYPE" -> "property_type"
      [] k = "ADDRESS" -> "address"
      [] k = "CITY" -> "city"
      [] k = "STATE OR PROVINCE" -> "state"
      [] k = "STATE" -> "state"
      [] k = "ZIP OR POSTAL CODE" -> "zip"
      [] k = "ZIP" -> "zip"
      [] k = "PRICE" -> "price"
      [] k = "BEDS" -> "beds"
      [] k = "BATHS" -> "baths"
      [] k = "LOCATION" -> "location"
      [] k = "SQUARE FEET" -> "sqft"
      [] k = "LOT SIZE" -> "lot_size"
      [] k = "YEAR BUILT" -> "year_built"
      [] k = "DAYS ON MARKET" -> "dom"
      [] k = "$/SQUARE FEET" -> "price_per_sqft"
      [] k = "HOA/MONTH" -> "hoa_monthly"
      [] k = "STATUS" -> "status"
      [] k = "NEXT OPEN HOUSE START TIME" -> "open_house_start"
      [] k = "NEXT OPEN HOUSE END TIME" -> "open_house_end"
      [] k = UrlHeaderHttps -> "url"
      [] k = UrlHeaderHttp -> "url"
      [] k = "SOURCE" -> "source"
      [] k = "MLS#" -> "mls_id"
      [] k = "FAVORITE" -> "favorite"
      [] k = "INTERESTED" -> "interested"
      [] k = "LATITUDE" -> "latitude"
      [] k = "LONGITUDE" -> "longitude"]

\* NormalizeHeader() passing a header that is not in col_map through
\* upper-cased
NormalizeHeader_UpperFallback(col) ==
  IF upper(strip(col)) \in DOMAIN col_map
  THEN col_map[upper(strip(col))]
  ELSE upper(strip(col))

\* col_map.get(col.strip().upper(), col.strip().lower())
NormalizeHeader(col) ==
  IF upper(strip(col)) \in DOMAIN col_map
  THEN col_map[upper(strip(col))]
  ELSE lower(strip(col))

NumericColumns ==
  {"price", "beds", "baths", "sqft", "lot_size", "year_built", "dom",
   "price_per_sqft", "hoa_monthly", "latitude", "longitude"}

\* pd.to_numeric(errors="coerce") on one cell
to_numeric(cell) ==
  IF cell.k = "str"
  THEN (IF IsDigits(strip(cell.s)) THEN Num(DigitsValue(strip(cell.s))) ELSE NaN)
  ELSE cell

\* df.rename(columns=renamed), lines 166-170
RenameColumns(df) ==
  DataFrame([c \in 1..Len(df.columns) |-> NormalizeHeader(df.columns[c])],
            df.rows)

\* lines 173-176 on the renamed frame: df[col] is a DataFrame, not a
\* Series, when the label col occurs twice, and pd.to_numeric rejects it
\* with a TypeError
CoerceRaises(renamed) ==
  \E col \in NumericColumns : CountColumns(renamed, col) > 1

\* lines 173-176 on the renamed frame, when nothing raises
CoerceNumeric(renamed) ==
  DataFrame(renamed.columns,
            [r \in 1..Len(renamed.rows) |->
              [c \in 1..Len(renamed.columns) |->
                IF renamed.columns[c] \in NumericColumns
                THEN to_numeric(renamed.rows[r][c])
                ELSE renamed.rows[r][c]]])

\* normalize_columns(df) raises
NormalizeRaises(df) == CoerceRaises(RenameColumns(df))

\* the DataFrame normalize_columns(df) returns
normalize_columns(df) == CoerceNumeric(RenameColumns(df))

(* ------------------------ pipeline filter builders --------------------- *)

\* Series >= v with NaN compared as if it were above every bound
Ge_NaNAbove(cell, v) == cell.k = "nan" \/ (cell.k = "num" /\ cell.n >= v)

\* Series >= v and Series <= v, cell by cell: a comparison with NaN is False
Ge(cell, v) == cell.k = "num" /\ cell.n >= v

Le(cell, v) == cell.k = "num" /\ cell.n <= v

\* price_filter() keeping the rows that are not below min_price and not
\* above max_price, which keeps the rows without a price
price_filter_KeepsNaN(min_price, max_price, df) ==
  IF ~InColumns(df, "price") THEN df
  ELSE DataFrame(df.columns,
         SelectRows(df.rows,
           [r \in 1..Len(df.rows) |->
             /\ ~Le(Column(df, "price")[r], min_price - 1)
             /\ ~Ge(Column(df, "price")[r], max_price + 1)]))

\* price_filter(min_price, max_price)(df)
price_filter(min_price, max_price, df) ==
  IF ~InColumns(df, "price") THEN df
  ELSE DataFrame(df.columns,
         SelectRows(df.rows,
           [r \in 1..Len(df.rows) |->
             /\ Ge(Column(df, "price")[r], min_price)
             /\ Le(Column(df, "price")[r], max_price)]))

\* BoundMask() with a bound on a missing column selecting no row
BoundMask_MissingColumnRejects(kwargs, df, r, key, col, op) ==
  IF key \in DOMAIN kwargs
  THEN /\ InColumns(df, col)
       /\ IF op = ">=" THEN Ge(Column(df, col)[r], kwargs[key])
                       ELSE Le(Column(df, col)[r], kwargs[key])
  ELSE TRUE

\* one "if key in kwargs and col in df.columns: mask &= ..." of
\* composite_filter, for row r; op is ">=" or "<="
BoundMask(kwargs, df, r, key, col, op) ==
  IF key \in DOMAIN kwargs /\ InColumns(df, col)
  THEN (IF op = ">=" THEN Ge(Column(df, col)[r], kwargs[key])
                     ELSE Le(Column(df, col)[r], kwargs[key]))
  ELSE TRUE

\* mask &= df["property_type"].isin(kwargs["property_types"])
PropertyTypeMask(kwargs, df, r) ==
  IF "property_types" \in DOMAIN kwargs /\ InColumns(df, "property_type")
  THEN \E t \in kwargs["property_types"] :
         Column(df, "property_type")[r] = Str(t)
  ELSE TRUE

\* composite_filter(**kwargs)(df)
composite_filter(kwargs, df) ==
  DataFrame(df.columns,
    SelectRows(df.rows,
      [r \in 1..Len(df.rows) |->
        /\ BoundMask(kwargs, df, r, "min_price", "price", ">=")
        /\ BoundMask(kwargs, df, r, "max_price", "price", "<=")
        /\ BoundMask(kwargs, df, r, "min_beds", "beds", ">=")
        /\ BoundMask(kwargs, df, r, "max_beds", "beds", "<=")
        /\ BoundMask(kwargs, df, r, "min_baths", "baths", ">=")
        /\ BoundMask(kwargs, df, r, "min_sqft", "sqft", ">=")
        /\ BoundMask(kwargs, df, r, "max_sqft", "sqft", "<=")
        /\ BoundMask(kwargs, df, r, "min_year_built", "year_built", ">=")
        /\ BoundMask(kwargs, df, r, "max_dom", "dom", "<=")
        /\ PropertyTypeMask(kwargs, df, r)]))

\* the filters argument of run_query: None, or one of the two builders
\* applied to their arguments
NoFilter == [kind |-> "none", kwargs |-> <<>>]

PriceFilter(min_price, max_price) ==
  [kind |-> "price_filter",
   kwargs |-> [min_price |-> min_price, max_price |-> max_price]]

CompositeFilter(kwargs) == [kind |-> "composite_filter", kwargs |-> kwargs]

\* filters(df) if filters is not None else df
ApplyFilters(f, df) ==
  CASE f.kind = "none" -> df
    [] f.kind = "price_filter" ->
         price_filter(f.kwargs.min_price, f.kwargs.max_price, df)
    [] f.kind = "composite_filter" -> composite_filter(f.kwargs, df)

(* ------------------------ config.WatchQuery ---------------------------- *)

REGION_TYPE_CITY == 6

OptionalAttrs ==
  {"min_price", "max_price", "min_num_beds", "max_num_beds", "min_num_baths",
   "max_num_baths", "min_sqft", "max_sqft", "min_lot_size", "max_lot_size",
   "min_year_built", "max_year_built", "min_stories", "max_stories",
   "property_type", "hoa", "time_on_market_range"}

\* _optional_map: attribute name -> request parameter name
optional_map ==
  [a \in OptionalAttrs |->
    CASE a = "min_sqft" -> "min_listing_approx_size"
      [] a = "max_sqft" -> "max_listing_approx_size"
      [] a = "min_lot_size" -> "min_parcel_size"
      [] a = "max_lot_size" -> "max_parcel_size"
      [] a = "property_type" -> "uipt"
      [] OTHER -> a]

\* WatchQuery(name, region_id, **set): the optional attributes not in set
\* keep their default None
WatchQuery(name, region_id, set) ==
  [name |-> name, region_id |-> region_id, region_type |-> REGION_TYPE_CITY,
   status |-> 1, num_homes |-> 350, garage |-> None, min_parking |-> None,
   opt |-> [a \in OptionalAttrs |->
             IF a \in DOMAIN set THEN Some(set[a]) ELSE None],
   extra_params |-> <<>>]

\* to_params() without the "if val is not None" test: the unset optional
\* attributes are sent as None
to_params_IncludesUnset(q) ==
  LET base == [al |-> 1, sp |-> "true", status |-> q.status,
               num_homes |-> q.num_homes, region_id |-> q.region_id,
               region_type |-> q.region_type, v |-> 8]
      optional == [pn \in {optional_map[a] : a \in OptionalAttrs} |->
                    LET a == CHOOSE a \in OptionalAttrs : optional_map[a] = pn
                    IN IF q.opt[a] = None THEN None ELSE q.opt[a][1]]
      gar == IF q.garage = Some(TRUE) THEN [gar |-> "true"] ELSE <<>>
      park == IF q.min_parking # None
              THEN [min_num_park |-> q.min_parking[1]] ELSE <<>>
  IN q.extra_params @@ park @@ gar @@ optional @@ base

\* WatchQuery.to_params: a mapping from parameter name to value
to_params(q) ==
  LET base == [al |-> 1, sp |-> "true", status |-> q.status,
               num_homes |-> q.num_homes, region_id |-> q.region_id,
               region_type |-> q.region_type, v |-> 8]
      setAttrs == {a \in OptionalAttrs : q.opt[a] # None}
      optional == [pn \in {optional_map[a] : a \in setAttrs} |->
                    q.opt[CHOOSE a \in setAttrs : optional_map[a] = pn][1]]
      gar == IF q.garage = Some(TRUE) THEN [gar |-> "true"] ELSE <<>>
      park == IF q.min_parking # None
              THEN [min_num_park |-> q.min_parking[1]] ELSE <<>>
  IN q.extra_params @@ park @@ gar @@ optional @@ base

(* --------------------------- listing_scraper --------------------------- *)

SiteOrigin == "https://www.redfin.com"

\* u if u.startswith("http") else f"https://www.redfin.com{u}"
MakeAbsolute(u) == IF startswith(u, "http") THEN u ELSE SiteOrigin \o u

\* sub in s
Contains(s, sub) ==
  \E i \in 1..(Len(s) - Len(sub) + 1) : SubSeq(s, i, i + Len(sub) - 1) = sub

RECURSIVE Dedupe(_, _)
\* the elements of seq not in seen, each once, in first-seen order
Dedupe(seq, seen) ==
  IF Len(seq) = 0 THEN <<>>
  ELSE IF seq[1] \in seen THEN Dedupe(Tail(seq), seen)
  ELSE <<seq[1]>> \o Dedupe(Tail(seq), seen \cup {seq[1]})

\* ListingDetails(url=url)
ListingDetails(url) ==
  [url |-> url, description |-> "", image_urls |-> <<>>, raw_data |-> "{}"]

\* A fetched page, as the parser sees it:
\*   elems    the elements in document order, [sel, text], sel the selector
\*            the element matches
\*   scripts  the script elements in document order: type attribute, whether
\*            the text holds "listingImages" or "photos", the matches of
\*            url_pattern in the text, the JSON value of the text (None when
\*            json.loads raises), whether the reactServerAgent.config pattern
\*            matches and the JSON value of its group
\*   imgs     the src attributes of the img elements in document order
DescriptionSelectors ==
  <<"div#marketing-remarks-scroll", "div.remarks",
    "div[data-testid=\"listing-remarks\"]", "p.marketing-remarks">>

\* the elements matching DescriptionSelectors[j], in document order
Matching(elems, j) ==
  SelectSeq(elems, LAMBDA e : e.sel = DescriptionSelectors[j])

\* css_first() returning the first element of the document that matches any
\* selector of the list
css_first_DocumentOrder(elems) ==
  IF \E i \in 1..Len(elems) :
       \E j \in 1..Len(DescriptionSelectors) :
         elems[i].sel = DescriptionSelectors[j]
  THEN Some(elems[CHOOSE i \in 1..Len(elems) :
         /\ \E j \in 1..Len(DescriptionSelectors) :
              elems[i].sel = DescriptionSelectors[j]
         /\ \A k \in 1..(i - 1) :
              \A j \in 1..Len(DescriptionSelectors) :
                elems[k].sel # DescriptionSelectors[j]])
  ELSE None

\* tree.css_first(selector list) of selectolax.parser.HTMLParser: the
\* engine runs the selectors of a comma-separated list one after the other,
\* each over the whole tree, and collects the matches in that order;
\* css_first returns the first collected node, None when there is none
css_first(elems) ==
  IF \E j \in 1..Len(DescriptionSelectors) : Len(Matching(elems, j)) > 0
  THEN Some(Matching(elems,
              CHOOSE j \in 1..Len(DescriptionSelectors) :
                /\ Len(Matching(elems, j)) > 0
                /\ \A k \in 1..(j - 1) : Len(Matching(elems, k)) = 0)[1])
  ELSE None

RECURSIVE extract_images_from_scripts(_)
extract_images_from_scripts(scripts) ==
  IF Len(scripts) = 0 THEN <<>>
  ELSE IF ~scripts[1].keyword
       THEN extract_images_from_scripts(Tail(scripts))
  ELSE IF Len(scripts[1].found) > 0 THEN Dedupe(scripts[1].found, {})
  ELSE extract_images_from_scripts(Tail(scripts))

\* tree.css("img[src*='cdn-redfin'], img[src*='ssl.cdn-redfin']"): the
\* matches of the first selector in document order, then those of the second
CdnImages(imgs) ==
  SelectSeq(imgs, LAMBDA src : Contains(src, "cdn-redfin"))
  \o SelectSeq(imgs, LAMBDA src : Contains(src, "ssl.cdn-redfin"))

RECURSIVE NotIcons(_)
NotIcons(srcs) ==
  IF Len(srcs) = 0 THEN <<>>
  ELSE (IF srcs[1] # "" /\ ~endswith(srcs[1], "_icon.png")
        THEN <<srcs[1]>> ELSE <<>>) \o NotIcons(Tail(srcs))

\* _extract_images_from_tags() without the "src not in seen" test
extract_images_from_tags_NoSeen(imgs) == NotIcons(CdnImages(imgs))

\* _extract_images_from_tags(tree)
extract_images_from_tags(imgs) == Dedupe(NotIcons(CdnImages(imgs)), {})

RECURSIVE extract_embedded_json(_)
extract_embedded_json(scripts) ==
  IF Len(scripts) = 0 THEN "{}"
  ELSE IF Contains(scripts[1].type, "application/ld+json")
       THEN (IF scripts[1].json # None THEN scripts[1].json[1]
             ELSE extract_embedded_json(Tail(scripts)))
  ELSE IF scripts[1].config_match
       THEN (IF scripts[1].config_json # None THEN scripts[1].config_json[1]
             ELSE extract_embedded_json(Tail(scripts)))
  ELSE extract_embedded_json(Tail(scripts))

\* the response to client.get(url): an httpx.HTTPError, or a status and
\* the parsed page
PageError == [kind |-> "error", status |-> 0, page |-> <<>>]

PageResponse(status, page) == [kind |-> "http", status |-> status, page |-> page]

\* scrape_listing() scanning the img tags whatever the scripts gave
scrape_listing_TagsAlways(url, resp) ==
  IF resp.kind = "error" THEN ListingDetails(url)
  ELSE IF resp.status # 200 THEN ListingDetails(url)
  ELSE LET desc_node == css_first(resp.page.elems)
           from_scripts == extract_images_from_scripts(resp.page.scripts)
       IN [url |-> url,
           description |-> IF desc_node # None THEN strip(desc_node[1].text)
                           ELSE "",
           image_urls |-> Dedupe(from_scripts
                                 \o extract_images_from_tags(resp.page.imgs), {}),
           raw_data |-> extract_embedded_json(resp.page.scripts)]

\* ListingScraper.scrape_listing(url, client), given the response
scrape_listing(url, resp) ==
  IF resp.kind = "error" THEN ListingDetails(url)
  ELSE IF resp.status # 200 THEN ListingDetails(url)
  ELSE LET desc_node == css_first(resp.page.elems)
           from_scripts == extract_images_from_scripts(resp.page.scripts)
       IN [url |-> url,
           description |-> IF desc_node # None THEN strip(desc_node[1].text)
                           ELSE "",
           image_urls |-> IF Len(from_scripts) = 0
                          THEN extract_images_from_tags(resp.page.imgs)
                          ELSE from_scripts,
           raw_data |-> extract_embedded_json(resp.page.scripts)]

(* ------------------------------ inputs --------------------------------- *)

\* the watch queries handed to run_query
Queries ==
  {WatchQuery("Miami", 11203, [min_price |-> 400000, max_price |-> 800000])}

\* the filters argument of run_query
Filters ==
  {NoFilter, PriceFilter(400000, 800000),
   CompositeFilter([min_price |-> 400000, max_price |-> 800000])}

PriceCells == {Str("300000"), Str("500000"), Str("Call")}

UrlCells ==
  {NaN, Str("/FL/Miami/home/1"), Str("https://www.redfin.com/FL/Miami/home/2")}

\* the tables the site (or the browser download) returns: their column
\* headers and the cells each column may hold
RawSchemas ==
  {[columns |-> <<"PRICE", UrlHeaderHttps>>, cells |-> <<PriceCells, UrlCells>>],
   [columns |-> <<" Price ", "URL">>, cells |-> <<PriceCells, UrlCells>>],
   [columns |-> <<"Notes", "url">>, cells |-> <<{Str("remodeled")}, UrlCells>>],
   [columns |-> <<"PRICE", "Price">>,
    cells |-> <<{Str("500000")}, {Str("500000")}>>],
   [columns |-> <<"URL", "url">>,
    cells |-> <<{Str("/FL/Miami/home/1")}, {Str("/FL/Miami/home/1")}>>]}

RowsOf(schema) ==
  {row \in [1..Len(schema.columns) ->
             UNION {schema.cells[c] : c \in 1..Len(schema.columns)}] :
     \A c \in 1..Len(schema.columns) : row[c] \in schema.cells[c]}

SeqsUpTo(S, n) == UNION {[1..m -> S] : m \in 0..n}

RawTables ==
  UNION {{DataFrame(schema.columns, rows) :
            rows \in SeqsUpTo(RowsOf(schema), MaxRows)} :
          schema \in RawSchemas}

\* the response of the bulk endpoint: an httpx.HTTPError, or a status, a
\* content-type header, whether the first 200 characters of the body hold
\* "<html", and what pd.read_csv makes of the body (None when it raises)
BulkError ==
  [kind |-> "error", status |-> 0, content_type |-> "", markup |-> FALSE,
   csv |-> None]

BulkResponse(status, content_type, markup, csv) ==
  [kind |-> "http", status |-> status, content_type |-> content_type,
   markup |-> markup, csv |-> csv]

\* what pd.read_csv makes of a markup document when it does not raise
MarkupTable ==
  DataFrame(<<"<!DOCTYPE html>">>, <<<<Str("<html lang=\"en\">")>>>>)

BulkResponses ==
  {BulkError}
  \cup {BulkResponse(403, "text/html", TRUE, None)}
  \cup {BulkResponse(200, ct, TRUE, csv) :
          ct \in {"text/html; charset=utf-8", "text/plain"},
          csv \in {None, Some(MarkupTable)}}
  \cup {BulkResponse(200, ct, FALSE, csv) :
          ct \in {"text/csv; charset=utf-8", ""},
          csv \in {None} \cup {Some(t) : t \in RawTables}}

\* what RedfBrowserDownloader.download_from_query does: it raises
\* ImportError (no playwright), raises another exception, or returns a table
BrowserOutcomes ==
  {[kind |-> "ImportError", table |-> EmptyFrame],
   [kind |-> "Exception", table |-> EmptyFrame]}
  \cup {[kind |-> "table", table |-> t] : t \in RawTables}

\* the listing pages the site serves
ImageA == "https://ssl.cdn-redfin.com/photo/1/bigphoto/001_0.jpg"

ImageB == "https://ssl.cdn-redfin.com/photo/1/bigphoto/001_1.webp"

ImageC == "https://ssl.cdn-redfin.com/photo/1/bigphoto/001_2.JPG"

Script(type, keyword, found, json, config_match, config_json) ==
  [type |-> type, keyword |-> keyword, found |-> found, json |-> json,
   config_match |-> config_match, config_json |-> config_json]

\* description, the three images twice in a script and again in img tags
PageFull ==
  [elems |-> <<[sel |-> "div.remarks", text |-> " Sunny corner lot. "]>>,
   scripts |-> <<Script("", TRUE,
                        <<ImageA, ImageB, ImageA, ImageC, ImageB, ImageC>>,
                        None, FALSE, None)>>,
   imgs |-> <<ImageA, ImageB, ImageC>>]

\* no description, the images in img tags only
PageTagsOnly ==
  [elems |-> <<>>,
   scripts |-> <<Script("application/ld+json", FALSE, <<>>, Some("ld"),
                        FALSE, None)>>,
   imgs |-> <<ImageB, "https://ssl.cdn-redfin.com/img/map_icon.png", ImageB>>]

\* a page with nothing to extract
PageBare ==
  [elems |-> <<[sel |-> "div.footer", text |-> "About"]>>,
   scripts |-> <<>>,
   imgs |-> <<"https://ssl.cdn-redfin.com/img/map_icon.png">>]

Pages == {PageFull, PageTagsOnly, PageBare}

PageResponses ==
  {PageError} \cup {PageResponse(500, <<>>)}
  \cup {PageResponse(200, page) : page \in Pages}

(* ------------------------------- state --------------------------------- *)

VARIABLES
  pc,          \* position of the control in run_query
  args,        \* the arguments of the run_query call
  client,      \* the httpx.Client objects the downloader has made, each
               \* "open" or "closed"; _client is the last one, None if <<>>
  sent,        \* the params of the bulk request, None before it is sent
  df,          \* run_query's local df: None or a DataFrame
  df_filtered, \* run_query's local df_filtered
  result,      \* run_query's local result: the PipelineResult
  urls,        \* scrape_listings' argument urls
  i,           \* scrape_listings' loop index (0-based)
  results,     \* scrape_listings' local results
  replies,     \* the responses scrape_listings got, one per page fetch
  caller,      \* who called scrape_listings: "run_query" or "direct"
  fetched,     \* the table that survived Fetching, None if there is none
  log,         \* the network calls and suspensions, as they begin and end
  stages,      \* the stages of the run, in the order they were entered
  files,       \* the artifacts written to output_dir
  batch        \* config.watch_queries and the progress of a run_all call

vars == <<pc, args, client, sent, df, df_filtered, result, urls, i, results,
          replies, caller, fetched, log, stages, files, batch>>

\* PipelineResult(query_name=name)
PipelineResult(name) ==
  [query_name |-> name, raw_count |-> 0, filtered_count |-> 0,
   enriched_count |-> 0, df_raw |-> EmptyFrame, df_filtered |-> EmptyFrame,
   listing_details |-> <<>>, error |-> None]

Event(ev, what) == [ev |-> ev, what |-> what]

\* ScraperConfig(): watch_queries is the empty list; no run_all call is
\* under way. started, results and fetched are the queries run_all has
\* called run_query for, its local results, and the table each of these
\* runs fetched
Batch(watch_queries) ==
  [watch_queries |-> watch_queries, active |-> FALSE, started |-> <<>>,
   results |-> <<>>, fetched |-> <<>>]

Init ==
  /\ pc = "idle"
  /\ args = [query |-> CHOOSE q \in Queries : TRUE, filters |-> NoFilter,
             scrape_details |-> TRUE, use_browser_fallback |-> TRUE]
  /\ client = <<>>
  /\ sent = None
  /\ df = None
  /\ df_filtered = EmptyFrame
  /\ result = PipelineResult("")
  /\ urls = <<>>
  /\ i = 0
  /\ results = <<>>
  /\ replies = <<>>
  /\ caller = "run_query"
  /\ fetched = None
  /\ log = <<>>
  /\ stages = <<>>
  /\ files = <<>>
  /\ batch = Batch(<<>>)


(* ---------------------- csv_downloader.download ------------------------ *)

\* _get_client testing "self._client is None" only
get_client_NoneOnly(c) == IF c = <<>> THEN <<"open">> ELSE c

\* RedfCSVDownloader._get_client: the clients after the call. The only
\* assignment to _client (line 37) stores a client made there, so _client
\* is the last client made
get_client(c) ==
  IF c = <<>> \/ c[Len(c)] = "closed" THEN Append(c, "open") ELSE c

\* RedfCSVDownloader.close: the clients after the call
close_client(c) ==
  IF c # <<>> /\ c[Len(c)] # "closed"
  THEN [c EXCEPT ![Len(c)] = "closed"]
  ELSE c

\* what download does with the response: TRUE when it raises
\* CSVDownloadError
DownloadRaises(resp) ==
  \/ resp.kind = "error"
  \/ resp.status # 200
  \/ /\ ~Contains(resp.content_type, "text/csv")
     /\ ~Contains(resp.content_type, "text/plain")
     /\ resp.markup
  \/ resp.csv = None

\* the DataFrame download returns when it does not raise
DownloadTable(resp) == resp.csv[1]

(* ---------------------- pipeline.run_query ----------------------------- *)

\* run_query(query, filters, scrape_details, use_browser_fallback), line 87
run_query(q, f, sd, fb) ==
  /\ pc = "idle"
  /\ args' = [query |-> q, filters |-> f, scrape_details |-> sd,
              use_browser_fallback |-> fb]
  /\ result' = PipelineResult(q.name)
  /\ df' = None
  /\ pc' = "Fetching"
  /\ stages' = <<"Fetching">>
  /\ caller' = "run_query"
  /\ UNCHANGED <<batch, client, sent, df_filtered, urls, i, results, replies, fetched,
                 log, files>>

\* download: to_params, _get_client, client.get is sent (lines 66-74)
CsvRequest ==
  /\ pc = "Fetching"
  /\ sent' = Some(to_params(args.query))
  /\ client' = get_client(client)
  /\ log' = Append(log, Event("begin", "csv"))
  /\ pc' = "AwaitCsv"
  /\ UNCHANGED <<batch, args, df, df_filtered, result, urls, i, results, replies,
                 caller, fetched, stages, files>>

\* CsvResponse with the except clause calling the fallback without looking
\* at use_browser_fallback
CsvResponse_AlwaysFallback(resp) ==
  /\ pc = "AwaitCsv"
  /\ IF DownloadRaises(resp)
     THEN /\ log' = Append(log, Event("fail", "csv"))
          /\ df' = None
          /\ pc' = "Fallback"
     ELSE /\ log' = Append(log, Event("ok", "csv"))
          /\ df' = Some(DownloadTable(resp))
          /\ pc' = "FetchDone"
  /\ fetched' = df'
  /\ UNCHANGED <<batch, args, client, sent, df_filtered, result, urls, i, results,
                 replies, caller, stages, files>>

\* client.get returns or raises; the rest of download and the except
\* clause of run_query (csv_downloader 75-105, pipeline 96-101)
CsvResponse(resp) ==
  /\ pc = "AwaitCsv"
  /\ IF DownloadRaises(resp)
     THEN /\ log' = Append(log, Event("fail", "csv"))
          /\ df' = None
          /\ pc' = IF args.use_browser_fallback THEN "Fallback" ELSE "FetchDone"
     ELSE /\ log' = Append(log, Event("ok", "csv"))
          /\ df' = Some(DownloadTable(resp))
          /\ pc' = "FetchDone"
  /\ fetched' = df'
  /\ UNCHANGED <<batch, args, client, sent, df_filtered, result, urls, i, results,
                 replies, caller, stages, files>>

\* _try_browser_fallback starts the browser download (lines 201-205)
BrowserRequest ==
  /\ pc = "Fallback"
  /\ log' = Append(log, Event("begin", "browser"))
  /\ pc' = "AwaitBrowser"
  /\ UNCHANGED <<batch, args, client, sent, df, df_filtered, result, urls, i,
                 results, replies, caller, fetched, stages, files>>

\* the browser download returns a table or raises; _try_browser_fallback
\* turns every exception into None (lines 205-214)
BrowserResponse(out) ==
  /\ pc = "AwaitBrowser"
  /\ IF out.kind = "table"
     THEN /\ df' = Some(out.table)
          /\ log' = Append(log, Event("ok", "browser"))
     ELSE /\ df' = None
          /\ log' = Append(log, Event("fail", "browser"))
  /\ fetched' = df'
  /\ pc' = "FetchDone"
  /\ UNCHANGED <<batch, args, client, sent, df_filtered, result, urls, i, results,
                 replies, caller, stages, files>>

\* CheckTable testing "df is None" only
CheckTable_NoneOnly ==
  /\ pc = "FetchDone"
  /\ IF df = None
     THEN /\ result' = [result EXCEPT
                          !.error = Some("No data returned from CSV download")]
          /\ pc' = "Aborted"
          /\ stages' = Append(stages, "Aborted")
     ELSE /\ result' = result
          /\ pc' = "Normalizing"
          /\ stages' = Append(stages, "Normalizing")
  /\ UNCHANGED <<batch, args, client, sent, df, df_filtered, urls, i, results,
                 replies, caller, fetched, log, files>>

\* if df is None or df.empty: ... return result (lines 103-106)
CheckTable ==
  /\ pc = "FetchDone"
  /\ IF df = None \/ IsEmpty(df[1])
     THEN /\ result' = [result EXCEPT
                          !.error = Some("No data returned from CSV download")]
          /\ pc' = "Aborted"
          /\ stages' = Append(stages, "Aborted")
     ELSE /\ result' = result
          /\ pc' = "Normalizing"
          /\ stages' = Append(stages, "Normalizing")
  /\ UNCHANGED <<batch, args, client, sent, df, df_filtered, urls, i, results,
                 replies, caller, fetched, log, files>>

\* df = normalize_columns(df); result.df_raw; result.raw_count
\* (lines 109-111); the TypeError of pd.to_numeric leaves run_query
Normalize ==
  /\ pc = "Normalizing"
  /\ \E renamed \in {RenameColumns(df[1])} :
       IF CoerceRaises(renamed)
       THEN /\ pc' = "Raised"
            /\ UNCHANGED <<df, result, stages>>
       ELSE \E normalized \in {CoerceNumeric(renamed)} :
              /\ df' = Some(normalized)
              /\ result' = [result EXCEPT
                              !.df_raw = normalized,
                              !.raw_count = Len(normalized.rows)]
              /\ pc' = "Filtering"
              /\ stages' = Append(stages, "Filtering")
  /\ UNCHANGED <<batch, args, client, sent, df_filtered, urls, i, results, replies,
                 caller, fetched, log, files>>

\* df_filtered = filters(df) or df; result.df_filtered;
\* result.filtered_count (lines 117-123)
Filter ==
  /\ pc = "Filtering"
  /\ \E kept \in {ApplyFilters(args.filters, df[1])} :
       /\ df_filtered' = kept
       /\ result' = [result EXCEPT
                       !.df_filtered = kept,
                       !.filtered_count = Len(kept.rows)]
  /\ pc' = "Enrich"
  /\ UNCHANGED <<batch, args, client, sent, df, urls, i, results, replies, caller,
                 fetched, log, stages, files>>

RECURSIVE dropna(_)
\* Series.dropna().tolist(): the text of the cells that are not NaN
dropna(cells) ==
  IF Len(cells) = 0 THEN <<>>
  ELSE (IF cells[1].k = "nan" THEN <<>> ELSE <<cells[1].s>>)
       \o dropna(Tail(cells))

\* the urls run_query reads from df_filtered (lines 134-138)
ExtractUrls(d) ==
  IF InColumns(d, "url") THEN dropna(Column(d, "url"))
  ELSE IF InColumns(d, "URL") THEN dropna(Column(d, "URL"))
  ELSE <<>>

\* d["url"] is a DataFrame when the label occurs twice: it has no tolist
ExtractUrlsRaises(d) ==
  IF InColumns(d, "url") THEN CountColumns(d, "url") > 1
  ELSE CountColumns(d, "URL") > 1

\* EnrichedCount with "and" for "or"
EnrichedCount_DescriptionAndImages(details) ==
  Cardinality({n \in 1..Len(details) :
                 details[n].description # "" /\ Len(details[n].image_urls) > 0})

\* EnrichedCount() counting a description and an image list separately
EnrichedCount_PerField(details) ==
  Cardinality({n \in 1..Len(details) : details[n].description # ""})
  + Cardinality({n \in 1..Len(details) : Len(details[n].image_urls) > 0})

\* sum(1 for d in listing_details if d.description or d.image_urls)
EnrichedCount(details) ==
  Cardinality({n \in 1..Len(details) :
                 details[n].description # "" \/ Len(details[n].image_urls) > 0})

\* if scrape_details and result.filtered_count > 0: ... urls ... (130-145,
\* 158-162): the scheduler is entered with the absolute urls, or the stage
\* is skipped
Enrich ==
  /\ pc = "Enrich"
  /\ IF args.scrape_details /\ result.filtered_count > 0
     THEN IF ExtractUrlsRaises(df_filtered)
          THEN /\ pc' = "Raised"
               /\ stages' = Append(stages, "Enriching")
               /\ UNCHANGED <<urls, i, results, replies>>
          ELSE IF Len(ExtractUrls(df_filtered)) > 0
          THEN /\ urls' = [n \in 1..Len(ExtractUrls(df_filtered)) |->
                            MakeAbsolute(ExtractUrls(df_filtered)[n])]
               /\ i' = 0
               /\ results' = <<>>
               /\ replies' = <<>>
               /\ pc' = "Scraping"
               /\ stages' = Append(stages, "Enriching")
          ELSE /\ pc' = "Saving"
               /\ stages' = stages \o <<"Enriching", "Saving">>
               /\ UNCHANGED <<urls, i, results, replies>>
     ELSE /\ pc' = "Saving"
          /\ stages' = Append(stages, "Saving")
          /\ UNCHANGED <<urls, i, results, replies>>
  /\ UNCHANGED <<batch, args, client, sent, df, df_filtered, result, caller, fetched,
                 log, files>>

\* the url arguments of a direct call of scrape_listings
UrlLists ==
  SeqsUpTo({"/FL/Miami/home/1", "https://www.redfin.com/FL/Miami/home/2"},
           MaxUrls)

\* a direct call of scrape_listings(us) (lines 181-188): with no url the
\* loop body never runs and [] is returned
scrape_listings(us) ==
  /\ pc = "idle"
  /\ caller' = "direct"
  /\ urls' = us
  /\ i' = 0
  /\ results' = <<>>
  /\ replies' = <<>>
  /\ pc' = IF Len(us) = 0 THEN "Returned" ELSE "Scraping"
  /\ UNCHANGED <<batch, args, client, sent, df, df_filtered, result, fetched, log,
                 stages, files>>

\* scrape_listings: the url of this turn of the loop (lines 188-190)
CurrentUrl == MakeAbsolute(urls[i + 1])

\* scrape_listing sends client.get(url) (listing_scraper 53-56)
PageRequest ==
  /\ pc = "Scraping"
  /\ log' = Append(log, Event("begin", CurrentUrl))
  /\ pc' = "AwaitPage"
  /\ UNCHANGED <<batch, args, client, sent, df, df_filtered, result, urls, i,
                 results, replies, caller, fetched, stages, files>>

\* PageReply() with a failed fetch leaving no entry in results
PageReply_SkipFailed(resp) ==
  /\ pc = "AwaitPage"
  /\ results' = IF resp.kind = "error" \/ resp.status # 200 THEN results
                ELSE Append(results, scrape_listing(CurrentUrl, resp))
  /\ replies' = Append(replies, resp)
  /\ IF i < Len(urls) - 1
     THEN /\ log' = log \o <<Event("end", CurrentUrl), Event("begin", "sleep")>>
          /\ pc' = "Sleeping"
          /\ UNCHANGED <<result, stages>>
     ELSE /\ log' = Append(log, Event("end", CurrentUrl))
          /\ IF caller = "run_query"
             THEN /\ result' = [result EXCEPT
                                  !.listing_details = results',
                                  !.enriched_count = EnrichedCount(results')]
                  /\ pc' = "Saving"
                  /\ stages' = Append(stages, "Saving")
             ELSE /\ pc' = "Returned"
                  /\ UNCHANGED <<result, stages>>
  /\ UNCHANGED <<batch, args, client, sent, df, df_filtered, urls, i, caller, fetched,
                 files>>

\* PageReply() with the politeness sleep after a successful fetch only
PageReply_NoSleepAfterFailure(resp) ==
  /\ pc = "AwaitPage"
  /\ results' = Append(results, scrape_listing(CurrentUrl, resp))
  /\ replies' = Append(replies, resp)
  /\ IF i < Len(urls) - 1
     THEN IF resp.kind = "error" \/ resp.status # 200
          THEN /\ log' = Append(log, Event("end", CurrentUrl))
               /\ i' = i + 1
               /\ pc' = "Scraping"
               /\ UNCHANGED <<result, stages>>
          ELSE /\ log' = log \o <<Event("end", CurrentUrl),
                                  Event("begin", "sleep")>>
               /\ pc' = "Sleeping"
               /\ UNCHANGED <<i, result, stages>>
     ELSE /\ log' = Append(log, Event("end", CurrentUrl))
          /\ i' = i
          /\ IF caller = "run_query"
             THEN /\ result' = [result EXCEPT
                                  !.listing_details = results',
                                  !.enriched_count = EnrichedCount(results')]
                  /\ pc' = "Saving"
                  /\ stages' = Append(stages, "Saving")
             ELSE /\ pc' = "Returned"
                  /\ UNCHANGED <<result, stages>>
  /\ UNCHANGED <<batch, args, client, sent, df, df_filtered, urls, caller, fetched,
                 files>>

\* client.get returns or raises; the rest of scrape_listing; the result is
\* appended; then the politeness sleep starts, or the loop ends and
\* run_query counts the enriched listings (listing_scraper 57-96, 196-206,
\* pipeline 147-153)
PageReply(resp) ==
  /\ pc = "AwaitPage"
  /\ results' = Append(results, scrape_listing(CurrentUrl, resp))
  /\ replies' = Append(replies, resp)
  /\ IF i < Len(urls) - 1
     THEN /\ log' = log \o <<Event("end", CurrentUrl), Event("begin", "sleep")>>
          /\ pc' = "Sleeping"
          /\ UNCHANGED <<result, stages>>
     ELSE /\ log' = Append(log, Event("end", CurrentUrl))
          /\ IF caller = "run_query"
             THEN /\ result' = [result EXCEPT
                                  !.listing_details = results',
                                  !.enriched_count = EnrichedCount(results')]
                  /\ pc' = "Saving"
                  /\ stages' = Append(stages, "Saving")
             ELSE /\ pc' = "Returned"
                  /\ UNCHANGED <<result, stages>>
  /\ UNCHANGED <<batch, args, client, sent, df, df_filtered, urls, i, caller, fetched,
                 files>>

\* asyncio.sleep(delay) returns; the loop goes to the next url
Wake ==
  /\ pc = "Sleeping"
  /\ log' = Append(log, Event("end", "sleep"))
  /\ i' = i + 1
  /\ pc' = "Scraping"
  /\ UNCHANGED <<batch, args, client, sent, df, df_filtered, result, urls, results,
                 replies, caller, fetched, stages, files>>

(* ---------------------- pipeline._save_results ------------------------- *)

RECURSIVE replace(_, _, _)
\* str.replace(old, new) for a one-character old
replace(s, old, new) ==
  IF Len(s) = 0 THEN ""
  ELSE (IF Char(s, 1) = old THEN new ELSE Char(s, 1))
       \o replace(SubSeq(s, 2, Len(s)), old, new)

\* result.query_name.replace(" ", "_").replace("/", "_")
SafeName(name) == replace(replace(name, " ", "_"), "/", "_")

\* datetime.now().strftime("%Y%m%d_%H%M%S") at the time of the run
Timestamp == "20240101_120000"

CsvPath(name) == "filtered_" \o SafeName(name) \o "_" \o Timestamp \o ".csv"

DetailsPath(name) == "details_" \o SafeName(name) \o "_" \o Timestamp \o ".json"

\* details_data: url, description and image_urls of every entry
DetailsData(details) ==
  [n \in 1..Len(details) |->
    [url |-> details[n].url, description |-> details[n].description,
     image_urls |-> details[n].image_urls]]

\* the system calls of _save_results that can fail with OSError
SaveFailures == {"none", "makedirs", "to_csv", "open"}

\* self._save_results(result); return result (lines 165-175, 216-247);
\* fail names the call that raises, and nothing catches the exception
Save(fail) ==
  /\ pc = "Saving"
  /\ fail = "to_csv" => ~IsEmpty(result.df_filtered)
  /\ fail = "open" => Len(result.listing_details) > 0
  /\ LET csv == IF ~IsEmpty(result.df_filtered) /\ fail \notin {"makedirs", "to_csv"}
                THEN <<[path |-> CsvPath(result.query_name),
                        content |-> result.df_filtered]>>
                ELSE <<>>
         json == IF Len(result.listing_details) > 0 /\ fail = "none"
                 THEN <<[path |-> DetailsPath(result.query_name),
                         content |-> DetailsData(result.listing_details)]>>
                 ELSE <<>>
     IN files' = files \o csv \o json
  /\ IF fail = "none"
     THEN /\ pc' = "Done"
          /\ stages' = Append(stages, "Done")
     ELSE /\ pc' = "Raised"
          /\ stages' = stages
  /\ UNCHANGED <<batch, args, client, sent, df, df_filtered, result, urls, i,
                 results, replies, caller, fetched, log>>

Next ==
  \/ \E q \in Queries, f \in Filters, sd \in BOOLEAN, fb \in BOOLEAN :
       run_query(q, f, sd, fb)
  \/ \E us \in UrlLists : scrape_listings(us)
  \/ CsvRequest
  \/ pc = "AwaitCsv" /\ \E resp \in BulkResponses : CsvResponse(resp)
  \/ BrowserRequest
  \/ pc = "AwaitBrowser" /\ \E out \in BrowserOutcomes : BrowserResponse(out)
  \/ CheckTable
  \/ Normalize
  \/ Filter
  \/ Enrich
  \/ PageRequest
  \/ pc = "AwaitPage" /\ \E resp \in PageResponses : PageReply(resp)
  \/ Wake
  \/ \E fail \in SaveFailures : Save(fail)

Spec == Init /\ [][Next]_vars

(* ------------- the table stages on their own: TableSpec ---------------- *)

\* the tables pd.read_csv returns in TableSpec; read_csv gives a column of
\* numbers numeric cells (NaN for a blank) and renames a repeated header, so
\* the headers of one table differ
TableSchemas ==
  {[columns |-> <<"price", "beds", "property_type">>,
    cells |-> <<{Num(300000), Num(500000), NaN}, {Num(3), NaN},
                {Str("Condo/Co-op")}>>],
   [columns |-> <<"STATE OR PROVINCE", "STATE", "SQUARE FEET">>,
    cells |-> <<{Str("FL")}, {Str("FL")}, {Str("1200"), Str("n/a")}>>],
   [columns |-> <<"PRICE", "Price">>,
    cells |-> <<{Str("500000")}, {Str("500000")}>>],
   [columns |-> <<"ADDRESS", "mls#">>,
    cells |-> <<{Str("1 Main St")}, {Str("A1"), NaN}>>]}

TableInputs ==
  UNION {{DataFrame(schema.columns, rows) :
            rows \in SeqsUpTo(RowsOf(schema), MaxRows)} :
          schema \in TableSchemas}

TableResponses ==
  {BulkResponse(200, "text/csv", FALSE, Some(t)) : t \in TableInputs}

\* every keyword composite_filter supports
AllBounds ==
  [min_price |-> 400000, max_price |-> 800000, min_beds |-> 2, max_beds |-> 4,
   min_baths |-> 1, min_sqft |-> 1000, max_sqft |-> 3000,
   min_year_built |-> 1990, max_dom |-> 30]

TableFilters ==
  {NoFilter, PriceFilter(400000, 800000), PriceFilter(0, 99999999),
   CompositeFilter([min_sqft |-> 0]),
   CompositeFilter([min_beds |-> 0, max_beds |-> 99]),
   CompositeFilter([min_sqft |-> 1000]),
   CompositeFilter([min_price |-> 400000, min_sqft |-> 1000]),
   CompositeFilter([property_types |-> {"Condo/Co-op"}]),
   CompositeFilter(AllBounds)}

\* run_query up to the end of the Filtering stage, on TableInputs
TableNext ==
  \/ \E f \in TableFilters :
       run_query(CHOOSE q \in Queries : TRUE, f, FALSE, FALSE)
  \/ CsvRequest
  \/ pc = "AwaitCsv" /\ \E resp \in TableResponses : CsvResponse(resp)
  \/ CheckTable
  \/ Normalize
  \/ Filter

TableSpec == Init /\ [][TableNext]_vars

(* --------------- the request parameters on their own: QuerySpec -------- *)

\* values for the optional attributes a query of QuerySpec may set
OptionalValues ==
  [min_price |-> 400000, max_sqft |-> 3000, property_type |-> 1, hoa |-> 0]

\* the extra_params dicts of the queries of QuerySpec
ExtraParams == {<<>>, [min_price |-> 1], [uipt |-> 2], [sf |-> "1,2,3"]}

\* WatchQuery(...) with any subset of four optional attributes set, garage
\* and min_parking set or not, and one of the extra_params
QueryInputs ==
  {[WatchQuery("Miami", 11203, [a \in D |-> OptionalValues[a]])
      EXCEPT !.garage = g, !.min_parking = p, !.extra_params = e] :
     D \in SUBSET (DOMAIN OptionalValues),
     g \in {None, Some(TRUE), Some(FALSE)},
     p \in {None, Some(0)},
     e \in ExtraParams}

\* run_query up to the bulk request, on QueryInputs
QueryNext ==
  \/ \E q \in QueryInputs : run_query(q, NoFilter, FALSE, FALSE)
  \/ CsvRequest

QuerySpec == Init /\ [][QueryNext]_vars

(* --------------- the page scraper on its own: PageSpec ----------------- *)

IconSrc == "https://ssl.cdn-redfin.com/img/map_icon.png"

\* one image three times: twice in a script, once in an img tag
PageThrice ==
  [elems |-> <<>>,
   scripts |-> <<Script("", TRUE, <<ImageA, ImageA>>, None, FALSE, None)>>,
   imgs |-> <<ImageA>>]

\* a script with the keyword and no image, then two scripts with images
PageThreeScripts ==
  [elems |-> <<>>,
   scripts |-> <<Script("", TRUE, <<>>, None, FALSE, None),
                 Script("", TRUE, <<ImageB, ImageA, ImageB>>, None, FALSE, None),
                 Script("", TRUE, <<ImageC>>, None, FALSE, None)>>,
   imgs |-> <<ImageC>>]

\* a script with an image and neither "listingImages" nor "photos", then
\* one with the keyword
PageUnmarkedScript ==
  [elems |-> <<>>,
   scripts |-> <<Script("", FALSE, <<ImageA>>, None, FALSE, None),
                 Script("", TRUE, <<ImageB>>, None, FALSE, None)>>,
   imgs |-> <<>>]

\* the only script with an image has no keyword; img tags
PageUnmarkedOnly ==
  [elems |-> <<>>,
   scripts |-> <<Script("", FALSE, <<ImageA>>, None, FALSE, None)>>,
   imgs |-> <<ImageC, IconSrc, "https://www.redfin.com/logo.png", ImageC>>]

\* the class-named element before the identified one
PageRemarksFirst ==
  [elems |-> <<[sel |-> "div.remarks", text |-> " By class. "],
               [sel |-> "div#marketing-remarks-scroll", text |-> " By id. "]>>,
   scripts |-> <<>>,
   imgs |-> <<>>]

\* the selectors of the list in reverse order, one of them twice
PageAllSelectors ==
  [elems |-> <<[sel |-> "p.marketing-remarks", text |-> "Paragraph."],
               [sel |-> "div.footer", text |-> "About"],
               [sel |-> "div[data-testid=\"listing-remarks\"]",
                text |-> "By attribute, first."],
               [sel |-> "div[data-testid=\"listing-remarks\"]",
                text |-> "By attribute, second."]>>,
   scripts |-> <<>>,
   imgs |-> <<>>]

\* the configuration-object script before the linked-data one
PageConfigFirst ==
  [elems |-> <<>>,
   scripts |-> <<Script("", FALSE, <<>>, None, TRUE, Some("config")),
                 Script("application/ld+json", FALSE, <<>>, Some("ld"),
                        FALSE, None)>>,
   imgs |-> <<>>]

\* the linked-data script before the configuration-object one
PageLdFirst ==
  [elems |-> <<>>,
   scripts |-> <<Script("application/ld+json", FALSE, <<>>, Some("ld"),
                        FALSE, None),
                 Script("", FALSE, <<>>, None, TRUE, Some("config"))>>,
   imgs |-> <<>>]

\* a linked-data script that does not parse, then a configuration object
PageBrokenLd ==
  [elems |-> <<>>,
   scripts |-> <<Script("application/ld+json", FALSE, <<>>, None, FALSE, None),
                 Script("", FALSE, <<>>, None, TRUE, Some("config"))>>,
   imgs |-> <<>>]

\* a linked-data script and a configuration object, neither parses
PageNothingParses ==
  [elems |-> <<>>,
   scripts |-> <<Script("", FALSE, <<>>, None, TRUE, None),
                 Script("application/ld+json; charset=utf-8", FALSE, <<>>,
                        None, FALSE, None)>>,
   imgs |-> <<>>]

PageInputs ==
  {PageError, PageResponse(500, <<>>)}
  \cup {PageResponse(200, page) :
          page \in Pages \cup {PageThrice, PageThreeScripts, PageUnmarkedScript,
                               PageUnmarkedOnly, PageRemarksFirst,
                               PageAllSelectors, PageConfigFirst, PageLdFirst,
                               PageBrokenLd, PageNothingParses}}

\* direct calls of scrape_listings, the site serving PageInputs
PageNext ==
  \/ \E us \in UrlLists : scrape_listings(us)
  \/ PageRequest
  \/ pc = "AwaitPage" /\ \E resp \in PageInputs : PageReply(resp)
  \/ Wake

PageSpec == Init /\ [][PageNext]_vars

(* ---------------------- pipeline.run_all: BatchSpec -------------------- *)

\* largest number of watch queries of a configuration
MaxQueries == 2

\* a call of run_query from the loop of run_all (lines 193-195): its locals
\* are new, the downloader's client and the output directory are shared
StartRun(q, f, sd) ==
  /\ args' = [query |-> q, filters |-> f, scrape_details |-> sd,
              use_browser_fallback |-> TRUE]
  /\ result' = PipelineResult(q.name)
  /\ df' = None
  /\ pc' = "Fetching"
  /\ stages' = <<"Fetching">>
  /\ caller' = "run_query"
  /\ sent' = None
  /\ df_filtered' = EmptyFrame
  /\ urls' = <<>>
  /\ i' = 0
  /\ results' = <<>>
  /\ replies' = <<>>
  /\ fetched' = None
  /\ log' = <<>>
  /\ UNCHANGED <<client, files>>

\* run_all(filters, scrape_details), lines 191-195: with no watch query it
\* returns [], otherwise it calls run_query for the first one
run_all(f, sd) ==
  /\ pc = "idle"
  /\ ~batch.active
  /\ IF Len(batch.watch_queries) = 0
     THEN /\ pc' = "AllReturned"
          /\ batch' = [batch EXCEPT !.active = TRUE]
          /\ UNCHANGED <<args, client, sent, df, df_filtered, result, urls, i,
                         results, replies, caller, fetched, log, stages, files>>
     ELSE /\ StartRun(batch.watch_queries[1], f, sd)
          /\ batch' = [batch EXCEPT !.active = TRUE,
                                    !.started = <<batch.watch_queries[1]>>]

\* run_query has returned to run_all: results.append(result), then the
\* next query is run or results is returned (lines 192-197)
run_all_append ==
  /\ batch.active
  /\ pc \in {"Done", "Aborted"}
  /\ IF Len(batch.results) + 1 < Len(batch.watch_queries)
     THEN /\ StartRun(batch.watch_queries[Len(batch.results) + 2],
                      args.filters, args.scrape_details)
          /\ batch' = [batch EXCEPT
                         !.results = Append(@, result),
                         !.fetched = Append(@, fetched),
                         !.started =
                           Append(@, batch.watch_queries[Len(batch.results) + 2])]
     ELSE /\ pc' = "AllReturned"
          /\ batch' = [batch EXCEPT !.results = Append(@, result),
                                    !.fetched = Append(@, fetched)]
          /\ UNCHANGED <<args, client, sent, df, df_filtered, result, urls, i,
                         results, replies, caller, fetched, log, stages, files>>

\* the configurations, tables, responses and pages of BatchSpec
BatchQueries ==
  {WatchQuery("Miami", 11203, [min_price |-> 400000, max_price |-> 800000]),
   WatchQuery("Tampa Bay", 18142, <<>>)}

BatchTables ==
  {DataFrame(<<"PRICE", "URL">>, <<>>),
   DataFrame(<<"PRICE", "URL">>,
             <<<<Str("500000"), Str("/FL/Miami/home/1")>>>>),
   DataFrame(<<"PRICE", "URL">>,
             <<<<Str("300000"), Str("/FL/Miami/home/1")>>,
               <<Str("500000"), Str("https://www.redfin.com/FL/Miami/home/2")>>>>),
   DataFrame(<<"PRICE", "Price">>, <<<<Str("500000"), Str("500000")>>>>)}

BatchResponses ==
  {BulkError}
  \cup {BulkResponse(200, "text/csv", FALSE, Some(t)) : t \in BatchTables}

BatchBrowserOutcomes ==
  {[kind |-> "Exception", table |-> EmptyFrame],
   [kind |-> "table",
    table |-> DataFrame(<<"PRICE", "URL">>,
                        <<<<Str("500000"), Str("/FL/Miami/home/1")>>>>)]}

BatchPages == {PageError, PageResponse(200, PageFull)}

\* the state after the pipeline is constructed with a configuration of up
\* to MaxQueries watch queries
BatchInit ==
  /\ pc = "idle"
  /\ args = [query |-> CHOOSE q \in Queries : TRUE, filters |-> NoFilter,
             scrape_details |-> TRUE, use_browser_fallback |-> TRUE]
  /\ client = <<>>
  /\ sent = None
  /\ df = None
  /\ df_filtered = EmptyFrame
  /\ result = PipelineResult("")
  /\ urls = <<>>
  /\ i = 0
  /\ results = <<>>
  /\ replies = <<>>
  /\ caller = "run_query"
  /\ fetched = None
  /\ log = <<>>
  /\ stages = <<>>
  /\ files = <<>>
  /\ batch \in {Batch(qs) : qs \in SeqsUpTo(BatchQueries, MaxQueries)}

BatchNext ==
  \/ \E f \in {NoFilter, PriceFilter(400000, 800000)}, sd \in BOOLEAN :
       run_all(f, sd)
  \/ run_all_append
  \/ CsvRequest
  \/ pc = "AwaitCsv" /\ \E resp \in BatchResponses : CsvResponse(resp)
  \/ BrowserRequest
  \/ pc = "AwaitBrowser" /\ \E out \in BatchBrowserOutcomes : BrowserResponse(out)
  \/ CheckTable
  \/ Normalize
  \/ Filter
  \/ Enrich
  \/ PageRequest
  \/ pc = "AwaitPage" /\ \E resp \in BatchPages : PageReply(resp)
  \/ Wake
  \/ \E fail \in SaveFailures : Save(fail)

BatchSpec == BatchInit /\ [][BatchNext]_vars

(* ---------------- the downloader's client: ClientSpec ------------------ *)

\* largest number of httpx.Client objects one downloader makes
MaxClients == 3

\* largest number of artifacts in output_dir when a run is started
MaxFiles == 2

\* the clients that are open
OpenClients == {k \in DOMAIN client : client[k] = "open"}

\* the positions between two calls on the pipeline or its downloader
BetweenCalls == {"idle", "Done", "Aborted", "Returned", "Closed"}

\* a call of run_query on the pipeline, the first or a later one: its
\* locals are new, the downloader's client is the one the calls before
\* left
Call(q, sd) ==
  /\ pc \in BetweenCalls
  /\ Len(get_client(client)) <= MaxClients
  /\ Len(files) < MaxFiles
  /\ StartRun(q, NoFilter, sd)
  /\ UNCHANGED batch

\* a call of RedfCSVDownloader.download(query) from outside run_query:
\* to_params, _get_client, client.get is sent (csv_downloader 66-74)
download(q) ==
  /\ pc \in BetweenCalls
  /\ Len(get_client(client)) <= MaxClients
  /\ sent' = Some(to_params(q))
  /\ client' = get_client(client)
  /\ log' = <<Event("begin", "csv")>>
  /\ stages' = <<>>
  /\ caller' = "direct"
  /\ pc' = "AwaitDownload"
  /\ UNCHANGED <<batch, args, df, df_filtered, result, urls, i, results, replies,
                 fetched, files>>

\* client.get returns or raises and download returns the table or raises
\* CSVDownloadError to its caller (csv_downloader 75-105)
download_return(resp) ==
  /\ pc = "AwaitDownload"
  /\ IF DownloadRaises(resp)
     THEN /\ log' = Append(log, Event("fail", "csv"))
          /\ fetched' = None
          /\ pc' = "Raised"
     ELSE /\ log' = Append(log, Event("ok", "csv"))
          /\ fetched' = Some(DownloadTable(resp))
          /\ pc' = "Returned"
  /\ UNCHANGED <<batch, args, client, sent, df, df_filtered, result, urls, i,
                 results, replies, caller, stages, files>>

\* RedfinPipeline.close (pipeline 56-57) and RedfCSVDownloader.close
\* (csv_downloader 44-46), called between two calls
close ==
  /\ pc \in BetweenCalls
  /\ client' = close_client(client)
  /\ pc' = "Closed"
  /\ UNCHANGED <<batch, args, sent, df, df_filtered, result, urls, i, results,
                 replies, caller, fetched, log, stages, files>>

\* __exit__ of the pipeline or of the downloader (pipeline 62-63,
\* csv_downloader 51-52): the with block is left, after a call returned or
\* while the exception a call raised propagates
exit ==
  /\ pc \in BetweenCalls \cup {"Raised"}
  /\ client' = close_client(client)
  /\ pc' = "Exited"
  /\ UNCHANGED <<batch, args, sent, df, df_filtered, result, urls, i, results,
                 replies, caller, fetched, log, stages, files>>

\* the tables and responses of ClientSpec
ClientTables ==
  {DataFrame(<<"PRICE", "URL">>,
             <<<<Str("500000"), Str("/FL/Miami/home/1")>>>>),
   DataFrame(<<"PRICE", "Price">>, <<<<Str("500000"), Str("500000")>>>>)}

ClientResponses ==
  {BulkError}
  \cup {BulkResponse(200, "text/csv", FALSE, Some(t)) : t \in ClientTables}

ClientNext ==
  \/ \E q \in BatchQueries : Call(q, FALSE)
  \/ \E q \in BatchQueries : download(q)
  \/ \E resp \in ClientResponses : download_return(resp)
  \/ close
  \/ exit
  \/ CsvRequest
  \/ pc = "AwaitCsv" /\ \E resp \in ClientResponses : CsvResponse(resp)
  \/ BrowserRequest
  \/ pc = "AwaitBrowser" /\ \E out \in BatchBrowserOutcomes : BrowserResponse(out)
  \/ CheckTable
  \/ Normalize
  \/ Filter
  \/ Enrich
  \/ \E fail \in SaveFailures : Save(fail)

ClientSpec == Init /\ [][ClientNext]_vars

(* ============================== claims ================================= *)

InLog(e) == \E k \in 1..Len(log) : log[k] = e

\* the Fetching stage of a run_query call is over
FetchingOver ==
  pc \in {"Aborted", "Normalizing", "Filtering", "Enrich", "Scraping",
          "AwaitPage", "Sleeping", "Saving", "Done", "Raised"}
  /\ caller = "run_query"

\* Fetching left no usable table
NoUsableTable ==
  \/ InLog(Event("fail", "csv")) /\ ~args.use_browser_fallback
  \/ InLog(Event("fail", "csv")) /\ InLog(Event("fail", "browser"))
  \/ fetched # None /\ Len(fetched[1].rows) = 0

C2_FallbackOnlyAfterFailure ==
  /\ Cardinality({k \in 1..Len(log) : log[k] = Event("begin", "browser")}) <= 1
  /\ Cardinality({k \in 1..Len(log) : log[k] = Event("begin", "csv")}) <= 1
  /\ \A k \in 1..Len(log) :
       /\ log[k] = Event("begin", "browser") =>
            /\ k > 1
            /\ log[k - 1] = Event("fail", "csv")
            /\ args.use_browser_fallback
       /\ log[k] = Event("begin", "csv") /\ k < Len(log) =>
            log[k + 1] \in {Event("ok", "csv"), Event("fail", "csv")}
       /\ log[k] = Event("begin", "browser") /\ k < Len(log) =>
            log[k + 1] \in {Event("ok", "browser"), Event("fail", "browser")}
  /\ InLog(Event("ok", "csv")) => ~InLog(Event("begin", "browser"))

C2_Witness ==
  /\ pc = "Done"
  /\ InLog(Event("fail", "csv"))
  /\ InLog(Event("ok", "browser"))

\* the stage histories the state machine of run_query allows
StageOrders ==
  {<<"Fetching", "Normalizing", "Filtering", "Enriching", "Saving", "Done">>,
   <<"Fetching", "Normalizing", "Filtering", "Saving", "Done">>,
   <<"Fetching", "Aborted">>}

IsPrefix(p, q) == Len(p) <= Len(q) /\ SubSeq(q, 1, Len(p)) = p

\* Fetching produced a non-empty table
UsableTable == FetchingOver /\ fetched # None /\ Len(fetched[1].rows) > 0

\* C3: the stages of a run occur in the order Fetching, Normalizing,
\* Filtering, Enriching (or skipped), Saving, Done, each at most once;
\* Aborted follows Fetching only; a run whose Fetching stage produced a
\* non-empty table ends in Done with error unset (no exception leaves it).
C3_StagesInOrderToDone ==
  /\ \E order \in StageOrders : IsPrefix(stages, order)
  /\ UsableTable => pc # "Raised" /\ result.error = None

\* C4: a failure in the Saving stage is not propagated: from Saving,
\* run_query goes to Done and returns the result unchanged, error unset.
C4_SaveFailureNotPropagated ==
  [][pc = "Saving" =>
       pc' = "Done" /\ result' = result /\ result'.error = None]_vars

\* the page fetch failed: a network error or a status other than 200
Failed(resp) == resp.kind = "error" \/ resp.status # 200

\* scrape_listings has returned (to run_query or to its direct caller)
ScrapeOver == pc \in {"Saving", "Done", "Raised", "Returned"}

\* C5: scrape_listings returns exactly one ListingDetails per input url, in
\* input order, whatever fetches fail; the entry of a failed url is empty;
\* a failure does not stop the urls after it.
C5_OneEntryPerUrl ==
  /\ Len(results) = Len(replies)
  /\ Len(results) <= Len(urls)
  /\ \A n \in 1..Len(results) :
       /\ results[n].url = MakeAbsolute(urls[n])
       /\ Failed(replies[n]) =>
            /\ results[n].description = ""
            /\ results[n].image_urls = <<>>
            /\ results[n].raw_data = "{}"
  /\ ScrapeOver => Len(results) = Len(urls)
  /\ ScrapeOver /\ caller = "run_query" /\ Len(urls) > 0 =>
       result.listing_details = results

C5_Witness ==
  /\ pc \in {"Done", "Returned"}
  /\ Len(urls) >= 2
  /\ Len(results) = Len(urls)
  /\ \A n \in 1..Len(replies) : Failed(replies[n])

IsPageOrSleep(e) == e.what \notin {"csv", "browser"}

\* the page fetches and suspensions of the run, as they began and ended
PageLog == SelectSeq(log, IsPageOrSleep)

\* the k-th event of a strictly sequential schedule over urls: fetch of
\* url n begins, ends, the suspension begins, ends
Scheduled(k) ==
  CASE (k - 1) % 4 = 0 -> Event("begin", MakeAbsolute(urls[(k - 1) \div 4 + 1]))
    [] (k - 1) % 4 = 1 -> Event("end", MakeAbsolute(urls[(k - 1) \div 4 + 1]))
    [] (k - 1) % 4 = 2 -> Event("begin", "sleep")
    [] (k - 1) % 4 = 3 -> Event("end", "sleep")

\* C6: the page fetches are issued one at a time in input order, with
\* exactly one suspension, begun and completed, between two consecutive
\* fetches (also after a failed fetch) and none after the last: n urls
\* cause n fetches and n-1 suspensions, none when n is 0.
C6_OneSleepBetweenFetches ==
  /\ Len(PageLog) <= (IF Len(urls) = 0 THEN 0 ELSE 4 * Len(urls) - 2)
  /\ \A k \in 1..Len(PageLog) : PageLog[k] = Scheduled(k)
  /\ ScrapeOver =>
       /\ Len(PageLog) = (IF Len(urls) = 0 THEN 0 ELSE 4 * Len(urls) - 2)
       /\ Cardinality({k \in 1..Len(PageLog) : PageLog[k] = Event("end", "sleep")})
            = (IF Len(urls) = 0 THEN 0 ELSE Len(urls) - 1)

C6_Witness ==
  /\ pc \in {"Done", "Returned"}
  /\ Len(urls) >= 2
  /\ Failed(replies[1])
  /\ Cardinality({k \in 1..Len(PageLog) : PageLog[k] = Event("end", "sleep")})
       = Len(urls) - 1

\* C7: after a run of run_query, enriched_count is the number of entries of
\* listing_details with a non-empty description or at least one image url;
\* with 2 urls, the first answered HTTP 500 and the second a page with a
\* description and images, enriched_count = 1, listing_details has 2
\* entries and the first is empty.
C7_EnrichedCount ==
  /\ pc \in {"Saving", "Done", "Aborted"} /\ caller = "run_query" =>
       result.enriched_count =
         Cardinality({n \in 1..Len(result.listing_details) :
                        \/ result.listing_details[n].description # ""
                        \/ result.listing_details[n].image_urls # <<>>})
  /\ /\ pc = "Done"
     /\ replies = <<PageResponse(500, <<>>), PageResponse(200, PageFull)>>
     => /\ result.enriched_count = 1
        /\ Len(result.listing_details) = 2
        /\ result.listing_details[1].description = ""
        /\ result.listing_details[1].image_urls = <<>>
        /\ result.listing_details[1].raw_data = "{}"

C7_Witness ==
  /\ pc = "Done"
  /\ replies = <<PageResponse(500, <<>>), PageResponse(200, PageFull)>>
  /\ result.enriched_count = 1
  /\ result.listing_details[2].description = "Sunny corner lot."
  /\ Len(result.listing_details[2].image_urls) = 3

\* the query of the run carries min_price and max_price
QueryHasPriceBounds ==
  args.query.opt["min_price"] # None /\ args.query.opt["max_price"] # None

QueryMinPrice == args.query.opt["min_price"][1]

QueryMaxPrice == args.query.opt["max_price"][1]

\* n: the number of rows of the bulk response
BulkRows == Len(fetched[1].rows)

\* k: the number of rows of the bulk response whose price is a number
\* inside [min_price, max_price] of the query
BulkRowsInRange ==
  IF InColumns(result.df_raw, "price")
  THEN Cardinality({r \in 1..Len(result.df_raw.rows) :
         LET cell == result.df_raw.rows[r][ColumnIndex(result.df_raw, "price")]
         IN /\ cell.k = "num"
            /\ cell.n >= QueryMinPrice
            /\ cell.n <= QueryMaxPrice})
  ELSE 0

\* the predicate handed to run_query applies the price bounds of the query
FiltersApplyQueryBounds ==
  \/ /\ args.filters.kind = "price_filter"
     /\ args.filters.kwargs.min_price = QueryMinPrice
     /\ args.filters.kwargs.max_price = QueryMaxPrice
  \/ /\ args.filters.kind = "composite_filter"
     /\ args.filters.kwargs =
          [min_price |-> QueryMinPrice, max_price |-> QueryMaxPrice]

\* C8 as stated: for a Query with min_price and max_price and a bulk
\* response of n rows, k of them with a price inside the bounds, the
\* returned result has raw_count = n and filtered_count = k.
C8_QueryBoundsFilter ==
  pc = "Done" /\ QueryHasPriceBounds =>
    /\ result.raw_count = BulkRows
    /\ result.filtered_count = BulkRowsInRange

\* C8, amended: raw_count = n; the bounds of the Query only go into the
\* request parameters, so filtered_count = n when run_query gets no
\* predicate, and filtered_count = k when the caller passes price_filter or
\* composite_filter with the same bounds and the table has a price column.
C8_PredicateBoundsFilter ==
  pc = "Done" /\ QueryHasPriceBounds =>
    /\ result.raw_count = BulkRows
    /\ sent[1]["min_price"] = QueryMinPrice
    /\ sent[1]["max_price"] = QueryMaxPrice
    /\ args.filters.kind = "none" => result.filtered_count = BulkRows
    /\ FiltersApplyQueryBounds /\ InColumns(result.df_raw, "price") =>
         result.filtered_count = BulkRowsInRange

C8_Witness ==
  /\ pc = "Done"
  /\ QueryHasPriceBounds
  /\ args.filters.kind = "price_filter"
  /\ BulkRows = 2
  /\ BulkRowsInRange = 1
  /\ result.filtered_count = 1

\* the columns of the bulk response whose header is a URL header of the
\* alias table
UrlAliasColumns ==
  {c \in 1..Len(fetched[1].columns) :
     fetched[1].columns[c] \in {UrlHeaderHttps, UrlHeaderHttp}}

\* the absolute urls of the filtered rows that have one, in row order
FilteredRowUrls ==
  LET c == CHOOSE c \in UrlAliasColumns : TRUE
      cells == [r \in 1..Len(result.df_filtered.rows) |->
                 result.df_filtered.rows[r][c]]
  IN [n \in 1..Len(dropna(cells)) |-> MakeAbsolute(dropna(cells)[n])]

\* C9: with enrichment enabled, a non-empty filtered set and the listing
\* urls under a URL header of the alias table, run_query hands the absolute
\* url of every filtered row that has one to the scheduler, in row order,
\* and listing_details has one entry per such row.
C9_UrlsOfFilteredRows ==
  /\ pc \in {"Saving", "Done"}
  /\ caller = "run_query"
  /\ args.scrape_details
  /\ result.filtered_count > 0
  /\ UrlAliasColumns # {}
  => /\ urls = FilteredRowUrls
     /\ Len(result.listing_details) = Len(FilteredRowUrls)

\* C10: normalize_columns maps every header that is a key of the alias
\* table, in any letter case and with surrounding whitespace, to the
\* internal name of that key, and every other header to itself trimmed and
\* lower-cased.
C10_HeadersNormalized ==
  pc = "Filtering" =>
    \A c \in 1..Len(fetched[1].columns) :
      LET h == fetched[1].columns[c]
          keys == {key \in DOMAIN col_map : upper(key) = upper(strip(h))}
      IN IF keys # {}
         THEN \A key \in keys : result.df_raw.columns[c] = col_map[key]
         ELSE result.df_raw.columns[c] = lower(strip(h))

\* the internal field names: the values of the alias table
InternalNames == {col_map[k] : k \in DOMAIN col_map}

\* a table whose headers are internal field names and whose numeric fields
\* hold numbers or the absent value only
AlreadyNormalized(t) ==
  \A c \in 1..Len(t.columns) :
    /\ t.columns[c] \in InternalNames
    /\ t.columns[c] \in NumericColumns =>
         \A r \in 1..Len(t.rows) : t.rows[r][c].k \in {"num", "nan"}

\* normalize_columns has returned in this run
Normalized == pc \in {"Filtering", "Enrich"}

\* C11: normalize_columns is idempotent: on a table whose headers are
\* already internal field names and whose numeric fields are numbers or
\* absent it returns the same headers and the same cells; and it leaves
\* every table it has returned as it is.
C11_NormalizeIdempotent ==
  Normalized =>
    /\ AlreadyNormalized(fetched[1]) => result.df_raw = fetched[1]
    /\ ~NormalizeRaises(result.df_raw)
    /\ normalize_columns(result.df_raw) = result.df_raw

C11_Witness ==
  /\ pc = "Filtering"
  /\ AlreadyNormalized(fetched[1])
  /\ InColumns(fetched[1], "price")
  /\ Len(fetched[1].rows) = 2
  /\ fetched[1].rows[1][ColumnIndex(fetched[1], "price")] = Num(500000)
  /\ fetched[1].rows[2][ColumnIndex(fetched[1], "price")] = NaN
  /\ result.df_raw = fetched[1]

\* C12: for every raw table, also one whose headers hold several aliases
\* of one internal field, normalize_columns returns without raising, and
\* afterwards every cell of a numeric field is a number or absent.
C12_NormalizeNeverRaises ==
  /\ pc = "Raised" => stages[Len(stages)] # "Normalizing"
  /\ Normalized =>
       \A c \in 1..Len(result.df_raw.columns) :
         result.df_raw.columns[c] \in NumericColumns =>
           \A r \in 1..Len(result.df_raw.rows) :
             result.df_raw.rows[r][c].k \in {"num", "nan"}

\* the column a keyword of price_filter or composite_filter is about
BoundTargets ==
  [min_price |-> "price", max_price |-> "price", min_beds |-> "beds",
   max_beds |-> "beds", min_baths |-> "baths", min_sqft |-> "sqft",
   max_sqft |-> "sqft", min_year_built |-> "year_built", max_dom |-> "dom",
   property_types |-> "property_type"]

LowerBounds ==
  {"min_price", "min_beds", "min_baths", "min_sqft", "min_year_built"}

\* the keywords of the filter of this run whose column the normalized
\* table has
PresentBounds ==
  {k \in DOMAIN args.filters.kwargs : InColumns(result.df_raw, BoundTargets[k])}

\* row r of the normalized table is inside the bound of keyword k
RowMeets(r, k) ==
  LET cell == result.df_raw.rows[r][ColumnIndex(result.df_raw, BoundTargets[k])]
  IN IF k = "property_types"
     THEN cell.k = "str" /\ cell.s \in args.filters.kwargs[k]
     ELSE /\ cell.k = "num"
          /\ IF k \in LowerBounds THEN cell.n >= args.filters.kwargs[k]
                                  ELSE cell.n <= args.filters.kwargs[k]

\* C13: a bound of composite_filter or price_filter whose column is missing
\* from the table selects every row: the filter keeps exactly the rows
\* inside the bounds whose column is there, and returns the input rows
\* when every bound is about a missing column.
C13_MissingColumnSelectsAll ==
  pc = "Enrich" =>
    /\ result.df_filtered.columns = result.df_raw.columns
    /\ result.df_filtered.rows =
         SelectRows(result.df_raw.rows,
                    [r \in 1..Len(result.df_raw.rows) |->
                      \A k \in PresentBounds : RowMeets(r, k)])
    /\ PresentBounds = {} => result.df_filtered = result.df_raw

C13_Witness ==
  /\ pc = "Enrich"
  /\ args.filters = CompositeFilter([min_sqft |-> 1000])
  /\ ~InColumns(result.df_raw, "sqft")
  /\ InColumns(result.df_raw, "price")
  /\ Len(result.df_raw.rows) = 2
  /\ result.df_filtered = result.df_raw

\* the bulk endpoint answered 200 with a markup document as the body
MarkupAnswer(resp) == resp.kind = "http" /\ resp.status = 200 /\ resp.markup

\* C14: whenever the bulk endpoint answers 200 with a markup document as
\* the body, whatever the content-type header says, download fails (the
\* blocked failure) and the markup is never returned parsed as a table.
C14_MarkupIsBlocked ==
  [][\A resp \in BulkResponses :
       MarkupAnswer(resp) /\ CsvResponse(resp) =>
         /\ log' = Append(log, Event("fail", "csv"))
         /\ fetched' = None]_vars

\* the parameter names to_params always sends
BaseNames == {"al", "sp", "status", "num_homes", "region_id", "region_type", "v"}

\* the optional attributes of q that are set
SetAttrs(q) == {a \in OptionalAttrs : q.opt[a] # None}

\* the parameter names the fields of q call for, extra_params aside
FieldNames(q) ==
  BaseNames \cup {optional_map[a] : a \in SetAttrs(q)}
  \cup (IF q.garage = Some(TRUE) THEN {"gar"} ELSE {})
  \cup (IF q.min_parking # None THEN {"min_num_park"} ELSE {})

\* C15 as stated: the mapping to_params builds is fixed by the Query, and
\* for every optional field of the Query that is not set the mapping has
\* no entry under that field's parameter name.
C15_UnsetFieldsAbsent ==
  sent # None =>
    /\ sent[1] = to_params(args.query)
    /\ \A a \in OptionalAttrs :
         args.query.opt[a] = None => optional_map[a] \notin DOMAIN sent[1]
    /\ args.query.garage = None => "gar" \notin DOMAIN sent[1]
    /\ args.query.min_parking = None => "min_num_park" \notin DOMAIN sent[1]

\* C15, amended: the mapping is fixed by the Query: its names are the
\* always-sent names, the parameter names of the optional fields that are
\* set, and the names of extra_params; every entry of extra_params is in
\* the mapping as it is; so a field that is not set has no entry under its
\* parameter name unless extra_params has one under that name.
C15_UnsetFieldsAbsentUnlessExtra ==
  sent # None =>
    LET q == args.query
        m == sent[1]
    IN /\ DOMAIN m = FieldNames(q) \cup DOMAIN q.extra_params
       /\ \A n \in DOMAIN q.extra_params : m[n] = q.extra_params[n]
       /\ \A a \in SetAttrs(q) :
            optional_map[a] \notin DOMAIN q.extra_params =>
              m[optional_map[a]] = q.opt[a][1]
       /\ \A a \in OptionalAttrs :
            q.opt[a] = None /\ optional_map[a] \notin DOMAIN q.extra_params =>
              optional_map[a] \notin DOMAIN m
       /\ q.garage = None /\ "gar" \notin DOMAIN q.extra_params =>
            "gar" \notin DOMAIN m
       /\ q.min_parking = None /\ "min_num_park" \notin DOMAIN q.extra_params =>
            "min_num_park" \notin DOMAIN m

C15_Witness ==
  /\ pc = "AwaitCsv"
  /\ args.query.opt["min_price"] = None
  /\ args.query.opt["max_sqft"] = None
  /\ args.query.opt["hoa"] = Some(0)
  /\ args.query.extra_params = [min_price |-> 1]
  /\ sent[1]["min_price"] = 1
  /\ sent[1]["hoa"] = 0
  /\ "max_listing_approx_size" \notin DOMAIN sent[1]

\* the elements of a sequence
Range(seq) == {seq[k] : k \in 1..Len(seq)}

\* the first position of x in seq
FirstIndex(seq, x) ==
  CHOOSE k \in 1..Len(seq) : seq[k] = x /\ \A l \in 1..(k - 1) : seq[l] # x

\* out holds elements of src, none twice, in the order of their first
\* occurrence in src
FirstSeenOrder(out, src) ==
  /\ \A a, b \in 1..Len(out) : a # b => out[a] # out[b]
  /\ Range(out) \subseteq Range(src)
  /\ \A a, b \in 1..Len(out) :
       a < b => FirstIndex(src, out[a]) < FirstIndex(src, out[b])

\* the places of a page image urls are read from: the matches in one
\* script, or the img tags
ImageSources(page) ==
  {page.scripts[k].found : k \in 1..Len(page.scripts)} \cup {page.imgs}

\* C16: the image list of a ListingDetails never holds the same url twice,
\* whatever mix of script and img-tag sources the page has, and its urls
\* stand in the order in which they were first met in their source.
C16_ImagesOnceInFirstSeenOrder ==
  \A n \in 1..Len(results) :
    /\ \A a, b \in 1..Len(results[n].image_urls) :
         a # b => results[n].image_urls[a] # results[n].image_urls[b]
    /\ ~Failed(replies[n]) =>
         \E src \in ImageSources(replies[n].page) :
           FirstSeenOrder(results[n].image_urls, src)

C16_Witness ==
  /\ pc = "Returned"
  /\ replies = <<PageResponse(200, PageThrice), PageResponse(200, PageTagsOnly)>>
  /\ results[1].image_urls = <<ImageA>>
  /\ results[2].image_urls = <<ImageB>>

\* run k of the run_all call fetched no usable table
RunWithoutTable(k) ==
  batch.fetched[k] = None \/ Len(batch.fetched[k][1].rows) = 0

\* C17: run_all runs the pipeline once per configured query, one after the
\* other in configuration order, and returns one PipelineResult per query
\* in that order; an aborted run does not stop the later ones (no run ends
\* run_all early), and the counts and the error of a result are those of
\* its own query, filter and fetched table, whatever the runs before it did.
C17_RunAllOneResultPerQuery ==
  batch.active =>
    /\ pc # "Raised"
    /\ Len(batch.started) <= Len(batch.watch_queries)
    /\ batch.started = SubSeq(batch.watch_queries, 1, Len(batch.started))
    /\ Len(batch.results) \in {Len(batch.started) - 1, Len(batch.started)}
    /\ pc = "AllReturned" => Len(batch.results) = Len(batch.watch_queries)
    /\ \A k \in 1..Len(batch.results) :
         /\ batch.results[k].query_name = batch.watch_queries[k].name
         /\ IF RunWithoutTable(k)
            THEN /\ batch.results[k].error # None
                 /\ batch.results[k].raw_count = 0
                 /\ batch.results[k].filtered_count = 0
                 /\ batch.results[k].enriched_count = 0
            ELSE /\ batch.results[k].error = None
                 /\ batch.results[k].raw_count = Len(batch.fetched[k][1].rows)
                 /\ batch.results[k].filtered_count =
                      Len(ApplyFilters(args.filters,
                            normalize_columns(batch.fetched[k][1])).rows)

\* the positions in DescriptionSelectors of the selectors that match an
\* element of elems
MatchedSelectors(elems) ==
  {j \in 1..Len(DescriptionSelectors) :
     \E e \in 1..Len(elems) : elems[e].sel = DescriptionSelectors[j]}

\* the first element of elems that matches selector sel
FirstMatch(elems, sel) ==
  elems[CHOOSE e \in 1..Len(elems) :
          /\ elems[e].sel = sel
          /\ \A d \in 1..(e - 1) : elems[d].sel # sel]

\* the least number of a non-empty set of numbers
Least(S) == CHOOSE x \in S : \A y \in S : x <= y

ParsingLinkedData(scripts) ==
  {k \in 1..Len(scripts) :
     Contains(scripts[k].type, "application/ld+json") /\ scripts[k].json # None}

\* the other scripts with a configuration-object assignment that parses
ParsingConfig(scripts) ==
  {k \in 1..Len(scripts) :
     /\ ~Contains(scripts[k].type, "application/ld+json")
     /\ scripts[k].config_match
     /\ scripts[k].config_json # None}

\* C19: the structured data is the content of the first linked-data JSON
\* script that parses, also when a script with the configuration-object
\* assignment stands before it; the configuration object is used only when
\* no linked-data script parses; when nothing parses it is the empty
\* document.
C19_LinkedDataPreferred ==
  \A n \in 1..Len(results) :
    ~Failed(replies[n]) =>
      LET scripts == replies[n].page.scripts
      IN IF ParsingLinkedData(scripts) # {}
         THEN results[n].raw_data =
                scripts[Least(ParsingLinkedData(scripts))].json[1]
         ELSE IF ParsingConfig(scripts) # {}
         THEN results[n].raw_data =
                scripts[Least(ParsingConfig(scripts))].config_json[1]
         ELSE results[n].raw_data = "{}"

\* the img sources _extract_images_from_tags keeps
TagImages(imgs) ==
  {src \in Range(imgs) :
     Contains(src, "cdn-redfin") /\ src # "" /\ ~endswith(src, "_icon.png")}

\* out is the urls of src, each once, in first-seen order
OnceEach(out, src) == FirstSeenOrder(out, src) /\ Range(out) = Range(src)

\* the image urls are those of script k of the page if chosen is not
\* empty and k is its least element, those of the img tags otherwise
ImagesFrom(out, page, chosen) ==
  IF chosen # {}
  THEN OnceEach(out, page.scripts[Least(chosen)].found)
  ELSE FirstSeenOrder(out, page.imgs) /\ Range(out) = TagImages(page.imgs)

\* C20 as stated: the image urls are those of the first script, in document
\* order, that holds a url matching the image-hosting pattern, the later
\* scripts being ignored; the img elements are scanned only when no script
\* holds a matching url.
C20_FirstScriptWithImage ==
  \A n \in 1..Len(results) :
    ~Failed(replies[n]) =>
      ImagesFrom(results[n].image_urls, replies[n].page,
                 {k \in 1..Len(replies[n].page.scripts) :
                    Len(replies[n].page.scripts[k].found) > 0})

\* C20, amended: the image urls are those of the first script, in document
\* order, whose text holds "listingImages" or "photos" and a url matching
\* the image-hosting pattern, the later scripts being ignored; the img
\* elements are scanned only when there is no such script.
C20_FirstKeywordScriptWithImage ==
  \A n \in 1..Len(results) :
    ~Failed(replies[n]) =>
      ImagesFrom(results[n].image_urls, replies[n].page,
                 {k \in 1..Len(replies[n].page.scripts) :
                    /\ replies[n].page.scripts[k].keyword
                    /\ Len(replies[n].page.scripts[k].found) > 0})

C20_Witness ==
  /\ pc = "Returned"
  /\ replies = <<PageResponse(200, PageThreeScripts),
                 PageResponse(200, PageUnmarkedOnly)>>
  /\ results[1].image_urls = <<ImageB, ImageA>>
  /\ results[2].image_urls = <<ImageC>>

\* the client of the request in flight
InFlight == pc \in {"AwaitCsv", "AwaitDownload"}

\* C21: over any sequence of download and close calls on one downloader or
\* its pipeline, at most one client is open at a time; after close, and
\* after the with block is left on any path, no client is open; a request
\* is sent on an open client, so a download after close uses a fresh one
C21_OneClientReleasedOnClose ==
  /\ Cardinality(OpenClients) <= 1
  /\ pc \in {"Closed", "Exited"} => OpenClients = {}
  /\ InFlight => client # <<>> /\ client[Len(client)] = "open"

\* a download after a close is in flight on a second, fresh client
C21_Witness ==
  /\ InFlight
  /\ Len(client) = 2
  /\ client[1] = "closed"
  /\ client[2] = "open"

\* the numeric bounds of the filter of this run whose column the
\* normalized table has
PresentNumericBounds == PresentBounds \ {"property_types"}

\* the rows of the normalized table whose cell in column col is absent
AbsentRows(col) ==
  {result.df_raw.rows[r] :
     r \in {n \in 1..Len(result.df_raw.rows) :
              result.df_raw.rows[n][ColumnIndex(result.df_raw, col)].k = "nan"}}

\* C22: when the column of a numeric bound of composite_filter or
\* price_filter is in the table, no row whose cell in that column is absent
\* is among the rows the filter returns, whatever the bound value is; a
\* row with an absent cell that the filter returns has no bound on the
\* column of that cell.
C22_AbsentCellFailsBound ==
  pc = "Enrich" =>
    /\ \A k \in PresentNumericBounds :
         AbsentRows(BoundTargets[k]) \cap Range(result.df_filtered.rows) = {}
    /\ \A col \in Range(result.df_raw.columns) \cap NumericColumns :
         AbsentRows(col) \cap Range(result.df_filtered.rows) # {} =>
           \A k \in DOMAIN args.filters.kwargs : BoundTargets[k] # col

\* a lower bound of 0 on sqft drops the row whose sqft failed coercion and
\* keeps the other row
C22_Witness ==
  /\ pc = "Enrich"
  /\ args.filters = CompositeFilter([min_sqft |-> 0])
  /\ InColumns(result.df_raw, "sqft")
  /\ Len(result.df_raw.rows) = 2
  /\ AbsentRows("sqft") # {}
  /\ Len(result.df_filtered.rows) = 1

\* run_query is past the Filtering stage and has not raised
Filtered ==
  /\ caller = "run_query"
  /\ pc \in {"Enrich", "Scraping", "AwaitPage", "Sleeping", "Saving", "Done"}

\* C23: every result run_query returns, with no predicate or with a
\* price_filter or composite_filter predicate, has enriched_count <=
\* len(listing_details) <= filtered_count <= raw_count, and its raw table
\* has raw_count rows; after the Filtering stage the raw table is still
\* the normalized table that was fetched.
C23_CountsOrdered ==
  /\ pc \in {"Done", "Aborted"} =>
       /\ result.enriched_count <= Len(result.listing_details)
       /\ Len(result.listing_details) <= result.filtered_count
       /\ result.filtered_count <= result.raw_count
       /\ Len(result.df_raw.rows) = result.raw_count
  /\ Filtered =>
       result.df_raw = CoerceNumeric(RenameColumns(fetched[1]))

\* a returned result whose filter dropped a row and whose only page gave
\* neither a description nor an image
C23_Witness ==
  /\ pc = "Done"
  /\ result.raw_count = 2
  /\ result.filtered_count = 1
  /\ Len(result.listing_details) = 1
  /\ result.enriched_count = 0

====
